---- MODULE Spec2Model ----
(***************************************************************************)
(* Model of server/default-skills/remember-fact/scripts/remember.py:       *)
(* a per-agent key-value memory kept in the SQLite table agent_memory.     *)
(* One process runs at a time; every process is one run of main().        *)
(* The table is a bag of rows (agent_id, key, value); the column          *)
(* updated_at is not modelled.  Every storage call (connect, execute,     *)
(* commit) may succeed or raise sqlite3.OperationalError.                 *)
(***************************************************************************)
EXTENDS Bags, FiniteSets, Integers, Sequences, TLC

\* ---------------------------------------------------------------- bounds
\* longest command line tried, counted as len(sys.argv)
MaxArgc == 5

\* ------------------------------------------------------ input alphabets
KnownVerbs == {"set", "get", "list", "delete"}
UnknownVerbs == {"forget"}
Verbs == KnownVerbs \cup UnknownVerbs
Agents == {"a1", "a2"}
Keys == {"color", "size"}
Values == {"", "blue"}
Extras == {"extra"}

\* the strings allowed at position i (1-based) of a command line of verb
ArgPool(verb, i) ==
  CASE i = 1 -> {"remember.py"}
    [] i = 2 -> {verb}
    [] i = 3 -> Agents
    [] i = 4 -> Keys
    [] i = 5 /\ verb = "set" -> Values
    [] OTHER -> Extras

\* the command lines of length n of verb
ArgvOf(verb, n) ==
  {s \in [1..n -> UNION {ArgPool(verb, i) : i \in 1..n}] :
     \A i \in 1..n : s[i] \in ArgPool(verb, i)}

\* every command line of length 1..MaxArgc
ArgvSet ==
  {<<"remember.py">>} \cup UNION {ArgvOf(verb, n) : verb \in Verbs, n \in 2..MaxArgc}

VARIABLES
  table,       \* committed content of agent_memory: a bag of rows
  txn,         \* <<>> or <<b>>: b is the uncommitted table content of the open connection
  conn,        \* "none", "open" or "closed": the connection of the current process
  argv,        \* sys.argv of the current process
  pc,          \* position of the current process in main()
  stdout,      \* JSON objects printed by the current process
  exc,         \* exception in flight or raised: "none", "SystemExit", "OperationalError"
  exitCode,    \* exit status of the process, Running until it terminates
  remembered,  \* history: per (agent_id, key) the value of the last remembered payload, while no later set/delete ran on the pair
  setKeys,     \* history: per agent_id the keys for which a remembered payload was printed
  deleted      \* history: per agent_id whether a DELETE statement was issued

vars == <<table, txn, conn, argv, pc, stdout, exc, exitCode, remembered, setKeys, deleted>>

Running == -1

\* sys.argv[i], 0-based as in the source
Arg(i) == argv[i + 1]
Argc == Len(argv)

Row(a, k, v) == [agent_id |-> a, key |-> k, value |-> v]

\* rows of bag t with the given agent_id and key
Matching(t, a, k) == {r \in BagToSet(t) : r.agent_id = a /\ r.key = k}

\* number of rows (with copies) of bag t in the set of rows rs
CountIn(t, rs) == BagCardinality([r \in rs |-> t[r]])

\* ------------------------------------------------------ SQL statements
\* variant: a plain INSERT, no ON CONFLICT clause
Upsert_plainInsert(t, a, k, v) == t (+) SetToBag({Row(a, k, v)})

\* variant: the conflict target is the key alone, ON CONFLICT(key)
Upsert_keyOnly(t, a, k, v) ==
  LET hit == {r \in BagToSet(t) : r.key = k}
      rest == [r \in BagToSet(t) \ hit |-> t[r]]
  IN IF hit = {}
       THEN t (+) SetToBag({Row(a, k, v)})
       ELSE rest (+) [r \in {Row(x.agent_id, k, v) : x \in hit} |-> 1]

\* INSERT INTO agent_memory ... ON CONFLICT(agent_id, key) DO UPDATE SET value = excluded.value
Upsert(t, a, k, v) ==
  LET hit == Matching(t, a, k)
      rest == [r \in BagToSet(t) \ hit |-> t[r]]
  IN IF hit = {}
       THEN t (+) SetToBag({Row(a, k, v)})
       ELSE rest (+) [r \in {Row(a, k, v)} |-> CountIn(t, hit)]

\* variant: DELETE ... WHERE key = ?, the agent_id test left out
DeleteRows_byKey(t, a, k) == [r \in {x \in BagToSet(t) : x.key # k} |-> t[r]]

\* DELETE FROM agent_memory WHERE agent_id = ? AND key = ?
DeleteRows(t, a, k) == [r \in BagToSet(t) \ Matching(t, a, k) |-> t[r]]

\* variant: SELECT value ... WHERE key = ?, the agent_id test left out
SelectOne_anyAgent(t, a, k) ==
  IF {r \in BagToSet(t) : r.key = k} = {} THEN {<<>>}
  ELSE {<<r.value>> : r \in {x \in BagToSet(t) : x.key = k}}

\* SELECT value FROM agent_memory WHERE agent_id = ? AND key = ?, then fetchone():
\* the results the call can give, a one-column row <<value>> or None (<<>>)
SelectOne(t, a, k) ==
  IF Matching(t, a, k) = {} THEN {<<>>}
  ELSE {<<r.value>> : r \in Matching(t, a, k)}

\* variant: SELECT key, value FROM agent_memory, no WHERE clause
SelectByAgent_all(t, a) == t

\* SELECT key, value FROM agent_memory WHERE agent_id = ?: the rows selected
SelectByAgent(t, a) == [r \in {x \in BagToSet(t) : x.agent_id = a} |-> t[r]]

\* fetchall(): the orders in which storage can return the rows of bag b
FetchAll(b) ==
  LET n == BagCardinality(b)
  IN {s \in [1..n -> BagToSet(b)] :
        \A r \in BagToSet(b) : Cardinality({i \in 1..n : s[i] = r}) = b[r]}

\* variant: the test is made on the column, if row["value"]:
Truthy_onValue(row) == Len(row) > 0 /\ row[1] # ""

\* truth value of "if row:": None is false, a sqlite3.Row is true when it has columns
Truthy(row) == Len(row) > 0

\* ------------------------------------------------------- JSON payloads
UsageError == [error |-> "Usage: remember.py <action> <agent_id> [key] [value]"]
SetArgsError == [error |-> "set requires <key> and <value>"]
GetArgsError == [error |-> "get requires <key>"]
DeleteArgsError == [error |-> "delete requires <key>"]
UnknownActionError(action) ==
  [error |-> CASE action = "forget" -> "Unknown action: forget. Use set, get, list, or delete."
               [] OTHER -> "Unknown action"]
RememberedPayload(k, v) == [status |-> "remembered", key |-> k, value |-> v]
FoundPayload(k, v) == [key |-> k, value |-> v]
NotFoundPayload(k) == [error |-> "not found", key |-> k]
DeletedPayload(k) == [status |-> "deleted", key |-> k]
MemoriesPayload(rows) ==
  [memories |-> [i \in 1..Len(rows) |-> [key |-> rows[i].key, value |-> rows[i].value]]]

\* variant: the error exits are sys.exit(1)
ExitStatus_errorExit(e) == IF e = "none" THEN 0 ELSE 1

\* exit status of the interpreter: sys.exit(0) and a normal return give 0,
\* an uncaught exception gives 1
ExitStatus(e) == IF e = "OperationalError" THEN 1 ELSE 0

\* --------------------------------------------------------------- Init
Init ==
  /\ table = EmptyBag
  /\ txn = <<>>
  /\ conn = "none"
  /\ argv = <<>>
  /\ pc = "idle"
  /\ stdout = <<>>
  /\ exc = "none"
  /\ exitCode = Running
  /\ remembered = [p \in Agents \X Keys |-> {}]
  /\ setKeys = [a \in Agents |-> {}]
  /\ deleted = [a \in Agents |-> FALSE]

history == <<remembered, setKeys, deleted>>

\* ------------------------------------------------------------ actions
\* a new process starts with some command line; no other process is running
Invoke ==
  /\ pc = "idle"
  /\ \E av \in ArgvSet : argv' = av
  /\ pc' = "main"
  /\ UNCHANGED <<table, txn, conn, stdout, exc, exitCode, history>>

\* the terminated process is gone: its output and status have been collected
Reap ==
  /\ pc = "exited"
  /\ pc' = "idle"
  /\ argv' = <<>>
  /\ stdout' = <<>>
  /\ exc' = "none"
  /\ exitCode' = Running
  /\ conn' = "none"
  /\ UNCHANGED <<table, txn, history>>

\* if len(sys.argv) < 3: print usage; sys.exit(0)
Usage ==
  /\ pc = "main"
  /\ Argc < 3
  /\ stdout' = Append(stdout, UsageError)
  /\ exc' = "SystemExit"
  /\ exitCode' = ExitStatus("SystemExit")
  /\ pc' = "exited"
  /\ UNCHANGED <<table, txn, conn, argv, history>>

\* conn = sqlite3.connect(DB_PATH); conn.row_factory = sqlite3.Row
Connect ==
  /\ pc = "main"
  /\ ~(Argc < 3)
  /\ \E ok \in BOOLEAN :
       IF ok
         THEN /\ conn' = "open"
              /\ pc' = "try"
              /\ UNCHANGED <<exc, exitCode>>
         ELSE /\ exc' = "OperationalError"
              /\ exitCode' = ExitStatus("OperationalError")
              /\ pc' = "exited"
              /\ UNCHANGED conn
  /\ UNCHANGED <<table, txn, argv, stdout, history>>

\* variant: no finally clause, the exception ends the process at once
Raise_noFinally ==
  /\ exc' = "OperationalError"
  /\ pc' = "exited"

\* a statement or commit raised inside the try block: control goes to finally
Raise ==
  /\ exc' = "OperationalError"
  /\ pc' = "finally"

\* print(error); sys.exit(0) inside the try block: SystemExit goes to finally
ExitWith(payload) ==
  /\ stdout' = Append(stdout, payload)
  /\ exc' = "SystemExit"
  /\ pc' = "finally"

\* set without key and value
SetArgs ==
  /\ pc = "try"
  /\ Arg(1) = "set"
  /\ Argc < 5
  /\ ExitWith(SetArgsError)
  /\ UNCHANGED <<table, txn, conn, argv, exitCode, history>>

\* set: conn.execute(INSERT ... ON CONFLICT DO UPDATE)
SetExecute ==
  /\ pc = "try"
  /\ Arg(1) = "set"
  /\ ~(Argc < 5)
  /\ remembered' = [remembered EXCEPT ![<<Arg(2), Arg(3)>>] = {}]
  /\ \E ok \in BOOLEAN :
       IF ok
         THEN /\ txn' = <<Upsert(table, Arg(2), Arg(3), Arg(4))>>
              /\ pc' = "commit"
              /\ UNCHANGED exc
         ELSE /\ Raise
              /\ UNCHANGED txn
  /\ UNCHANGED <<table, conn, argv, stdout, exitCode, setKeys, deleted>>

\* variant: the commit is wrapped in try/except: pass
Commit_swallowed ==
  /\ pc = "commit"
  /\ \E ok \in BOOLEAN :
       IF ok
         THEN /\ table' = txn[1]
              /\ txn' = <<>>
         ELSE UNCHANGED <<table, txn>>
  /\ pc' = "print"
  /\ UNCHANGED <<exc, conn, argv, stdout, exitCode, history>>

\* conn.commit() of set and of delete
Commit ==
  /\ pc = "commit"
  /\ \E ok \in BOOLEAN :
       IF ok
         THEN /\ table' = txn[1]
              /\ txn' = <<>>
              /\ pc' = "print"
              /\ UNCHANGED exc
         ELSE /\ Raise
              /\ UNCHANGED <<table, txn>>
  /\ UNCHANGED <<conn, argv, stdout, exitCode, history>>

\* set: print(remembered payload)
SetPrint ==
  /\ pc = "print"
  /\ Arg(1) = "set"
  /\ stdout' = Append(stdout, RememberedPayload(Arg(3), Arg(4)))
  /\ pc' = "finally"
  /\ remembered' = [remembered EXCEPT ![<<Arg(2), Arg(3)>>] = {Arg(4)}]
  /\ setKeys' = [setKeys EXCEPT ![Arg(2)] = @ \cup {Arg(3)}]
  /\ UNCHANGED <<table, txn, conn, argv, exc, exitCode, deleted>>

\* get without key
GetArgs ==
  /\ pc = "try"
  /\ Arg(1) = "get"
  /\ Argc < 4
  /\ ExitWith(GetArgsError)
  /\ UNCHANGED <<table, txn, conn, argv, exitCode, history>>

\* get: SELECT, fetchone(), print found or not found
Get ==
  /\ pc = "try"
  /\ Arg(1) = "get"
  /\ ~(Argc < 4)
  /\ \E ok \in BOOLEAN :
       IF ok
         THEN /\ \E row \in SelectOne(table, Arg(2), Arg(3)) :
                   stdout' = Append(stdout,
                               IF Truthy(row) THEN FoundPayload(Arg(3), row[1])
                                              ELSE NotFoundPayload(Arg(3)))
              /\ pc' = "finally"
              /\ UNCHANGED exc
         ELSE /\ Raise
              /\ UNCHANGED stdout
  /\ UNCHANGED <<table, txn, conn, argv, exitCode, history>>

\* list: SELECT, fetchall(), print memories
List ==
  /\ pc = "try"
  /\ Arg(1) = "list"
  /\ \E ok \in BOOLEAN :
       IF ok
         THEN /\ \E rows \in FetchAll(SelectByAgent(table, Arg(2))) :
                   stdout' = Append(stdout, MemoriesPayload(rows))
              /\ pc' = "finally"
              /\ UNCHANGED exc
         ELSE /\ Raise
              /\ UNCHANGED stdout
  /\ UNCHANGED <<table, txn, conn, argv, exitCode, history>>

\* delete without key
DeleteArgs ==
  /\ pc = "try"
  /\ Arg(1) = "delete"
  /\ Argc < 4
  /\ ExitWith(DeleteArgsError)
  /\ UNCHANGED <<table, txn, conn, argv, exitCode, history>>

\* delete: conn.execute(DELETE ...)
DeleteExecute ==
  /\ pc = "try"
  /\ Arg(1) = "delete"
  /\ ~(Argc < 4)
  /\ remembered' = [remembered EXCEPT ![<<Arg(2), Arg(3)>>] = {}]
  /\ deleted' = [deleted EXCEPT ![Arg(2)] = TRUE]
  /\ \E ok \in BOOLEAN :
       IF ok
         THEN /\ txn' = <<DeleteRows(table, Arg(2), Arg(3))>>
              /\ pc' = "commit"
              /\ UNCHANGED exc
         ELSE /\ Raise
              /\ UNCHANGED txn
  /\ UNCHANGED <<table, conn, argv, stdout, exitCode, setKeys>>

\* delete: print(deleted payload)
DeletePrint ==
  /\ pc = "print"
  /\ Arg(1) = "delete"
  /\ stdout' = Append(stdout, DeletedPayload(Arg(3)))
  /\ pc' = "finally"
  /\ UNCHANGED <<table, txn, conn, argv, exc, exitCode, history>>

\* else: print(unknown action)
UnknownAction ==
  /\ pc = "try"
  /\ Arg(1) \notin KnownVerbs
  /\ stdout' = Append(stdout, UnknownActionError(Arg(1)))
  /\ pc' = "finally"
  /\ UNCHANGED <<table, txn, conn, argv, exc, exitCode, history>>

\* finally: conn.close(), which rolls an uncommitted transaction back;
\* then the process ends with the status of the exception in flight
Finally ==
  /\ pc = "finally"
  /\ conn' = "closed"
  /\ txn' = <<>>
  /\ exitCode' = ExitStatus(exc)
  /\ pc' = "exited"
  /\ UNCHANGED <<table, argv, stdout, exc, history>>

Next ==
  \/ Invoke
  \/ Reap
  \/ Usage
  \/ Connect
  \/ SetArgs
  \/ SetExecute
  \/ Commit
  \/ SetPrint
  \/ GetArgs
  \/ Get
  \/ List
  \/ DeleteArgs
  \/ DeleteExecute
  \/ DeletePrint
  \/ UnknownAction
  \/ Finally

Spec == Init /\ [][Next]_vars

TypeOK ==
  /\ pc \in {"idle", "main", "try", "commit", "print", "finally", "exited"}
  /\ conn \in {"none", "open", "closed"}
  /\ exc \in {"none", "SystemExit", "OperationalError"}
  /\ exitCode \in {Running, 0, 1}
  /\ Len(stdout) <= 2

\* ------------------------------------------------------------ properties
\* the process has terminated
Exited == pc = "exited"
\* the process is a run of verb with at least n words on the command line
Ran(verb, n) == Argc >= n /\ Arg(1) = verb
\* no storage call of the process raised
StorageWorked == exc # "OperationalError"
\* rows of the committed table under agent_id a
RowsOf(a) == {r \in BagToSet(table) : r.agent_id = a}
OtherAgent(a) == CHOOSE b \in Agents : b # a

\* C1: a get on a pair whose last set printed the remembered payload with
\* value v, with no set or delete run on that pair since, prints {key, value: v},
\* whatever ran on other pairs in between; v may be the empty string.
C1_SetGetRoundTrip ==
  (Exited /\ Ran("get", 4) /\ StorageWorked /\ remembered[<<Arg(2), Arg(3)>>] # {})
    => \E v \in remembered[<<Arg(2), Arg(3)>>] :
         stdout = <<FoundPayload(Arg(3), v)>> /\ exitCode = 0

C1_Witness ==
  /\ Exited /\ Ran("get", 4)
  /\ remembered[<<Arg(2), Arg(3)>>] = {""}
  /\ stdout = <<FoundPayload(Arg(3), "")>>
  /\ deleted[OtherAgent(Arg(2))]
  /\ RowsOf(OtherAgent(Arg(2))) # {}

\* C2: the table never holds two rows for one (agent_id, key)
C2_Unique ==
  \A a \in Agents, k \in Keys : CountIn(table, Matching(table, a, k)) <= 1

\* C2: the commit of a set on a pair that has a row keeps the number of rows and
\* leaves the new value in the row; when the row already had that value the
\* table content is the same
C2_SetStep ==
  (Ran("set", 5) /\ (table' # table \/ (pc = "commit" /\ pc' = "print")))
    => /\ Matching(table', Arg(2), Arg(3)) = {Row(Arg(2), Arg(3), Arg(4))}
       /\ Matching(table, Arg(2), Arg(3)) # {}
            => BagCardinality(table') = BagCardinality(table)
       /\ Row(Arg(2), Arg(3), Arg(4)) \in BagToSet(table) => table' = table

\* C2: key uniqueness under upsert: at most one record per (agent_id, key) in
\* every reachable state; a set on an existing pair replaces the value without
\* changing the number of records; a repeated set leaves the content identical.
C2_KeyUniqueUpsert == []C2_Unique /\ [][C2_SetStep]_vars

C2_Witness ==
  /\ Ran("set", 5) /\ pc = "print"
  /\ ~deleted[Arg(2)]
  /\ Arg(3) \in setKeys[Arg(2)]
  /\ remembered[<<Arg(2), Arg(3)>>] = {}
  /\ Matching(table, Arg(2), Arg(3)) = {Row(Arg(2), Arg(3), Arg(4))}
  /\ BagCardinality(table) = 3

\* C3: list a prints exactly one {key, value} entry per record stored under a
\* and nothing of another agent; with no delete run for a the number of entries
\* is the number of distinct keys set for a; it is empty when a has no record.
C3_ListExact ==
  (Exited /\ Ran("list", 3) /\ StorageWorked)
    => /\ Len(stdout) = 1
       /\ DOMAIN stdout[1] = {"memories"}
       /\ LET m == stdout[1].memories
              a == Arg(2)
          IN /\ Len(m) = CountIn(table, RowsOf(a))
             /\ \A r \in RowsOf(a) :
                  Cardinality({i \in 1..Len(m) : m[i] = [key |-> r.key, value |-> r.value]}) = 1
             /\ \A i \in 1..Len(m) :
                  \E r \in RowsOf(a) : m[i] = [key |-> r.key, value |-> r.value]
             /\ ~deleted[a] => Len(m) = Cardinality(setKeys[a])
             /\ RowsOf(a) = {} => m = <<>>

C3_Witness ==
  /\ Exited /\ Ran("list", 3)
  /\ ~deleted[Arg(2)]
  /\ Cardinality(setKeys[Arg(2)]) = 2
  /\ Len(stdout) = 1 /\ Len(stdout[1].memories) = 2
  /\ RowsOf(OtherAgent(Arg(2))) # {}

\* C4: a delete with a key whose storage calls work prints the deleted payload
\* and exits 0, whether or not the pair had a row
C4_DeleteReports ==
  (Exited /\ Ran("delete", 4) /\ StorageWorked)
    => stdout = <<DeletedPayload(Arg(3))>> /\ exitCode = 0

\* C4: a delete on a pair without a row leaves the table as it was
C4_DeleteStep ==
  (Ran("delete", 4) /\ Matching(table, Arg(2), Arg(3)) = {}) => table' = table

\* C4: delete reports success unconditionally: {status: deleted, key} whether
\* or not a record existed, and the table is unchanged when none existed.
C4_DeleteUnconditional == []C4_DeleteReports /\ [][C4_DeleteStep]_vars

C4_Witness ==
  /\ Exited /\ Ran("delete", 4)
  /\ Arg(3) \notin setKeys[Arg(2)]
  /\ stdout = <<DeletedPayload(Arg(3))>>
  /\ \E r \in RowsOf(OtherAgent(Arg(2))) : r.key = Arg(3)

\* C5: a get on a pair without a record (never set, set and deleted, or set
\* only under another agent_id) prints {error: not found, key} and exits 0.
C5_GetMissing ==
  (Exited /\ Ran("get", 4) /\ StorageWorked /\ Matching(table, Arg(2), Arg(3)) = {})
    => /\ stdout = <<NotFoundPayload(Arg(3))>>
       /\ exitCode = 0
       /\ exc = "none"

C5_Witness ==
  /\ Exited /\ Ran("get", 4)
  /\ Arg(3) \in setKeys[Arg(2)]
  /\ deleted[Arg(2)]
  /\ \E r \in RowsOf(OtherAgent(Arg(2))) : r.key = Arg(3)
  /\ stdout = <<NotFoundPayload(Arg(3))>>
  /\ exitCode = 0

\* the command line fails validation
Invalid ==
  \/ Argc < 3
  \/ Arg(1) = "set" /\ Argc < 5
  \/ Arg(1) \in {"get", "delete"} /\ Argc < 4
  \/ Arg(1) \notin KnownVerbs

\* C6: validation precedes storage: a process that prints a validation error
\* has issued no storage call, not even the connect, and a process with an
\* invalid command line ends with one error payload and exit 0 whether storage
\* works or not.
C6_ValidationPrecedesStorage ==
  /\ (Argc >= 1 /\ Invalid /\ stdout # <<>>) => conn = "none"
  /\ (Exited /\ Invalid) => (Len(stdout) = 1 /\ exitCode = 0)

\* C7: a process none of whose storage calls fail prints exactly one JSON
\* object and exits 0, for every verb and argument count; no process prints two.
C7_OneJsonExitZero ==
  /\ Len(stdout) <= 1
  /\ (Exited /\ StorageWorked) => (Len(stdout) = 1 /\ exitCode = 0)

C7_Witness ==
  /\ Exited /\ Ran("set", 3) /\ Argc < 5
  /\ exc = "SystemExit"
  /\ stdout = <<SetArgsError>>
  /\ exitCode = 0

\* C8: no process ends with its connection open
C8_ClosedAtExit == Exited => conn # "open"

\* C8: an open connection stays open until it is closed, and only an open
\* connection is closed
C8_ConnStep ==
  /\ conn = "open" => conn' \in {"open", "closed"}
  /\ (conn' = "closed" /\ conn # "closed") => conn = "open"
  /\ (pc' = "exited" /\ pc # "exited") => conn' # "open"

\* C8: every process that opens a connection closes it before it terminates, on
\* every path, and no process closes a connection it did not open.
C8_ConnectionReleased == []C8_ClosedAtExit /\ [][C8_ConnStep]_vars

C8_Witness ==
  /\ Exited /\ Ran("delete", 4)
  /\ exc = "OperationalError"
  /\ conn = "closed"

\* C9: a process whose statement or commit fails ends with nonzero status and
\* no JSON; a remembered payload implies the row is in the committed table and
\* a deleted payload implies the pair has no row there.
C9_StorageFailureFatal ==
  /\ (Exited /\ exc = "OperationalError") => (exitCode # 0 /\ stdout = <<>>)
  /\ (Argc >= 2 /\ Arg(1) \in {"set", "delete"} /\ pc \in {"commit", "print"} /\ exc = "OperationalError")
       => stdout = <<>>
  /\ (Ran("set", 5) /\ stdout # <<>>)
       => (stdout = <<RememberedPayload(Arg(3), Arg(4))>>
           /\ Row(Arg(2), Arg(3), Arg(4)) \in BagToSet(table))
  /\ (Ran("delete", 4) /\ stdout # <<>>)
       => (stdout = <<DeletedPayload(Arg(3))>>
           /\ Matching(table, Arg(2), Arg(3)) = {})

C9_Witness ==
  /\ Exited /\ Ran("set", 5)
  /\ exc = "OperationalError"
  /\ conn = "closed"
  /\ exitCode = 1
  /\ stdout = <<>>
  /\ Row(Arg(2), Arg(3), Arg(4)) \notin BagToSet(table)

\* C10: set a k v and delete a k change no row of another agent_id or another
\* key; get, list and the runs that end in a validation or unknown-action error
\* change no row at all.
C10_FrameStep ==
  IF Argc >= 2 /\ ~Invalid /\ Arg(1) \in {"set", "delete"}
    THEN \A r \in BagToSet(table) \cup BagToSet(table') :
           (r.agent_id # Arg(2) \/ r.key # Arg(3))
             => CopiesIn(r, table') = CopiesIn(r, table)
    ELSE table' = table

C10_Frame == [][C10_FrameStep]_vars

C10_Witness ==
  /\ Ran("set", 5) /\ pc = "print"
  /\ Row(Arg(2), Arg(3), Arg(4)) \in BagToSet(table)
  /\ \E r \in RowsOf(OtherAgent(Arg(2))) : r.key = Arg(3) /\ r.value # Arg(4)
  /\ \E r \in RowsOf(Arg(2)) : r.key # Arg(3)

====
